---- MODULE Spec2Model ----
(***************************************************************************)
(* Prometheus remote-write adapter for PostgreSQL/TimescaleDB.             *)
(*                                                                         *)
(* The model covers the write path of cmd/prometheus-postgresql-adapter    *)
(* (write handler -> sendSamples -> leadership gate), the batched          *)
(* ingestion writer of pkg/postgresql (Client.Write and its SQL), and the  *)
(* advisory-lock election and the throughput calculator of pkg/util.      *)
(* pkg/util is not part of the sources at hand: its definitions are        *)
(* modelled from spec.md sections 4.1 and 4.4.                             *)
(*                                                                         *)
(* Strings are sequences of byte values, so that JSON escaping and         *)
(* sort.Strings are computed on the bytes the program compares.            *)
(***************************************************************************)
EXTENDS Integers, Sequences, FiniteSets, Bags, TLC

\* ------------------------------------------------------------------ bounds

\* Number of inbound write requests over a behaviour.
MaxReqs == 2
\* The wall clock runs from 0 to MaxTime (one unit is promLivenessCheck).
MaxTime == 2
\* Connections of one instance's pool (cfg.maxOpenConns).
PoolSize == 2
\* The values of -pg-db-connect-retries run from 0 to MaxRetries.
MaxRetries == 2
\* The configured idle-resignation timeout T of the HA specification.
IdleTimeout == 1

Instances == {"a", "b"}
Reqs == 1..MaxReqs
Conns == Instances \X (1..PoolSize)
NoConn == <<"none", 0>>
\* No throughput was logged.
NoValue == -1

VARIABLES
    \* process configuration and clock
    cfg,                  \* [haGroupLockID, prometheusTimeout, restElection]
    serving,              \* the adapter processes that accept requests
    offered,              \* the batches the upstream sends
    elector,              \* per instance: "nil" | "rest" | "pglock"
    now,                  \* wall clock
    \* main.go globals, per instance
    lastRequestUnixNano,
    receivedSamples, sentSamples, failedSamples, sentBatchDuration,
    \* one inbound request: the write handler, sendSamples and Client.Write
    pc, inst, samples, nowRead, shouldWrite, err, conn, ret, writeInvoked,
    cleanupLog,
    httpStatus,           \* the response of the write handler, 0 before it
    warnLog,              \* the handler logged "Error sending samples ..."
    throughputLog,        \* the "Samples write throughput" the handler logged
    \* writeThroughput (util.ThroughputCalc), per instance
    throughputCurrent,    \* the value of the last SetCurrent
    throughputPrevious,   \* the value current had at the previous tick
    Values,               \* the notification slot, a sequence of deltas
    \* the store
    labelsTable, valuesTable, labelsIdSeq, tmpTable, connInUse,
    \* advisory-lock election (pkg/util)
    lockHolder, isLeader, checkErr, lockSessionLost,
    \* process startup
    startPc,              \* where main is: "buildClients" | "initElector" |
                          \* "listen" | "exit"
    dbConnectRetries,     \* postgresql.Config.dbConnectRetries
    connectAttempts,      \* calls made at startup that have to reach the store
    \* metricMetaJson on its own
    metrics,              \* two label mappings
    ranges,               \* the order in which `range m` visits each of them
    metas                 \* <<>>, or what metricMetaJson returned for each

startVars == <<startPc, dbConnectRetries, connectAttempts>>
canonVars == <<metrics, ranges, metas>>
globalVars == <<cfg, serving, offered, elector, now, startVars, canonVars>>
counterVars == <<receivedSamples, sentSamples, failedSamples, sentBatchDuration>>
throughputVars == <<throughputLog, throughputCurrent, throughputPrevious, Values>>
reqVars == <<pc, inst, samples, nowRead, shouldWrite, err, conn, ret,
            writeInvoked, cleanupLog, httpStatus, warnLog, throughputVars>>
storeVars == <<labelsTable, valuesTable, labelsIdSeq>>
poolVars == <<tmpTable, connInUse>>
electionVars == <<lockHolder, isLeader, checkErr, lockSessionLost>>
vars == <<globalVars, lastRequestUnixNano, counterVars, reqVars, storeVars,
          poolVars, electionVars>>

\* ------------------------------------------------------------ byte strings

\* model.MetricNameLabel, "__name__"
MetricNameLabel == <<95, 95, 110, 97, 109, 101, 95, 95>>

\* Byte-wise lexicographic order, the order of Go's string comparison.
RECURSIVE StrLess(_, _)
StrLess(s, t) ==
    IF s = <<>> THEN t # <<>>
    ELSE IF t = <<>> THEN FALSE
    ELSE IF Head(s) = Head(t) THEN StrLess(Tail(s), Tail(t))
    ELSE Head(s) < Head(t)

RECURSIVE InsertSorted(_, _)
InsertSorted(x, seq) ==
    IF seq = <<>> THEN <<x>>
    ELSE IF StrLess(Head(seq), x) THEN <<Head(seq)>> \o InsertSorted(x, Tail(seq))
    ELSE <<x>> \o seq

\* sort.Strings
RECURSIVE SortStrings(_)
SortStrings(seq) ==
    IF seq = <<>> THEN <<>>
    ELSE InsertSorted(Head(seq), SortStrings(Tail(seq)))

\* strings.Join
RECURSIVE Join(_, _)
Join(seq, sep) ==
    IF seq = <<>> THEN <<>>
    ELSE IF Len(seq) = 1 THEN seq[1]
    ELSE seq[1] \o sep \o Join(Tail(seq), sep)

\* One byte inside a JSON string as json.Marshal writes it (printable ASCII,
\* and the bytes 248..255, which occur in no UTF-8 encoding): the quote and
\* the backslash get a backslash, < > & become \u00XX, and a byte that is not
\* valid UTF-8 becomes \ufffd.
JsonEscapeByte(c) ==
    CASE c = 34 -> <<92, 34>>
      [] c = 92 -> <<92, 92>>
      [] c = 60 -> <<92, 117, 48, 48, 51, 99>>
      [] c = 62 -> <<92, 117, 48, 48, 51, 101>>
      [] c = 38 -> <<92, 117, 48, 48, 50, 54>>
      [] c >= 248 -> <<92, 117, 102, 102, 102, 100>>
      [] OTHER -> <<c>>

RECURSIVE JsonEscape(_)
JsonEscape(s) ==
    IF s = <<>> THEN <<>> ELSE JsonEscapeByte(Head(s)) \o JsonEscape(Tail(s))

\* json.Marshal(string(x))
JsonMarshal(s) == <<34>> \o JsonEscape(s) \o <<34>>

\* The order in which `range m` visits the keys of a Go map: unspecified; one
\* enumeration of the set.
RECURSIVE RangeOrder(_)
RangeOrder(S) ==
    IF S = {} THEN <<>>
    ELSE LET k == CHOOSE x \in S : TRUE IN <<k>> \o RangeOrder(S \ {k})

\* The loop of metricMetaJson over the keys in the order `order`.
RECURSIVE LabelStrings(_, _)
LabelStrings(m, order) ==
    IF order = <<>> THEN <<>>
    ELSE LET label == Head(order)
             rest == LabelStrings(m, Tail(order))
         IN IF label # MetricNameLabel
            THEN <<JsonMarshal(label) \o <<58, 32>> \o JsonMarshal(m[label])>> \o rest
            ELSE rest

\* A metricMetaJson that joins labelStrings without sort.Strings.
metricMetaJsonRange_Unsorted(m, order) ==
    LET hasName == MetricNameLabel \in DOMAIN m
        metricName == IF hasName THEN m[MetricNameLabel] ELSE <<>>
        numLabels == IF hasName THEN Cardinality(DOMAIN m) - 1
                     ELSE Cardinality(DOMAIN m)
        labelStrings == LabelStrings(m, order)
    IN IF numLabels = 0
       THEN <<metricName, <<123, 125>>>>
       ELSE <<metricName, <<123>> \o Join(labelStrings, <<44>>) \o <<125>>>>

\* A metricMetaJson that sorts the labels by key before it formats them.
metricMetaJsonRange_SortedByKey(m, order) ==
    LET hasName == MetricNameLabel \in DOMAIN m
        metricName == IF hasName THEN m[MetricNameLabel] ELSE <<>>
        numLabels == IF hasName THEN Cardinality(DOMAIN m) - 1
                     ELSE Cardinality(DOMAIN m)
        labelStrings == LabelStrings(m, SortStrings(order))
    IN IF numLabels = 0
       THEN <<metricName, <<123, 125>>>>
       ELSE <<metricName, <<123>> \o Join(labelStrings, <<44>>) \o <<125>>>>

\* metricMetaJson when `range m` visits the keys in the order `order`:
\* <<metric name, canonical labels text>>
metricMetaJsonRange(m, order) ==
    LET hasName == MetricNameLabel \in DOMAIN m
        metricName == IF hasName THEN m[MetricNameLabel] ELSE <<>>
        numLabels == IF hasName THEN Cardinality(DOMAIN m) - 1
                     ELSE Cardinality(DOMAIN m)
        labelStrings == LabelStrings(m, order)
    IN IF numLabels = 0
       THEN <<metricName, <<123, 125>>>>
       ELSE <<metricName,
              <<123>> \o Join(SortStrings(labelStrings), <<44>>) \o <<125>>>>

\* metricMetaJson: <<metric name, canonical labels text>>
metricMetaJson(m) == metricMetaJsonRange(m, RangeOrder(DOMAIN m))

\* ---------------------------------------------------------------- batches

up == <<117, 112>>
job == <<106, 111, 98>>

Sample(metric, value, timestamp) ==
    [Metric |-> metric, Value |-> value, Timestamp |-> timestamp]

\* {__name__="up", job="a"} and {__name__="up", job="b"}
MetricUpA == (MetricNameLabel :> up) @@ (job :> <<97>>)
MetricUpB == (MetricNameLabel :> up) @@ (job :> <<98>>)

\* Two samples sharing a label set; two samples with different label sets.
BatchSame == <<Sample(MetricUpA, 1, 0), Sample(MetricUpA, 0, 1)>>
BatchMixed == <<Sample(MetricUpA, 1, 0), Sample(MetricUpB, 1, 0)>>
Batches == {BatchSame, BatchMixed}

\* ------------------------------------------------------------------ store

\* labels_id of a values row whose left join found no labels row.
NULL == 0

\* One row of inputRows: (timestamp, float64(value), metricName, metricJson).
\* The labels column is jsonb; metricMetaJson writes every key once and in
\* sorted order, so two of its texts are equal as jsonb exactly when they are
\* equal as text, and the model keeps the text.
StagedRow(sample) ==
    LET meta == metricMetaJson(sample.Metric)
    IN [time |-> sample.Timestamp, value |-> sample.Value,
        metric_name |-> meta[1], labels |-> meta[2]]

\* The loop of Client.Write that builds inputRows.
RECURSIVE InputRows(_)
InputRows(batch) ==
    IF batch = <<>> THEN <<>>
    ELSE <<StagedRow(Head(batch))>> \o InputRows(Tail(batch))

\* select distinct sample.metric_name, sample.labels from %s_tmp
DistinctLabels(staged) ==
    {<<staged[k].metric_name, staged[k].labels>> : k \in DOMAIN staged}

\* The orders in which a statement may produce the rows of a set.
Orders(S) ==
    {o \in [1..Cardinality(S) -> S] :
        \A i, j \in 1..Cardinality(S) : i # j => o[i] # o[j]}

\* sqlInsertLabels without its "on conflict do nothing": every candidate row
\* is inserted.
RECURSIVE sqlInsertLabels_NoConflict(_, _, _)
sqlInsertLabels_NoConflict(L, N, order) ==
    IF order = <<>> THEN [labels |-> L, seq |-> N]
    ELSE LET p == Head(order)
         IN sqlInsertLabels_NoConflict(
                L \cup {[id |-> N, metric_name |-> p[1], labels |-> p[2]]},
                N + 1, Tail(order))

\* sqlInsertLabels on the labels table L with the id sequence at N, the
\* distinct staged label sets arriving in `order`: every candidate row draws
\* the next id, and a row that conflicts with a stored (metric_name, labels)
\* is not inserted (on conflict do nothing).
RECURSIVE sqlInsertLabels(_, _, _)
sqlInsertLabels(L, N, order) ==
    IF order = <<>> THEN [labels |-> L, seq |-> N]
    ELSE LET p == Head(order)
             conflict == \E l \in L : l.metric_name = p[1] /\ l.labels = p[2]
             L1 == IF conflict THEN L
                   ELSE L \cup {[id |-> N, metric_name |-> p[1], labels |-> p[2]]}
         IN sqlInsertLabels(L1, N + 1, Tail(order))

\* The rows sqlInsertValues selects: the staged rows left-joined to the labels
\* table on (metric_name, labels).
RECURSIVE sqlInsertValues(_, _)
sqlInsertValues(staged, L) ==
    IF staged = <<>> THEN EmptyBag
    ELSE LET sample == Head(staged)
             lbl == {l \in L : l.metric_name = sample.metric_name
                               /\ l.labels = sample.labels}
             joined == IF lbl = {}
                       THEN {[time |-> sample.time, value |-> sample.value,
                              labels_id |-> NULL]}
                       ELSE {[time |-> sample.time, value |-> sample.value,
                              labels_id |-> l.id] : l \in lbl}
         IN SetToBag(joined) (+) sqlInsertValues(Tail(staged), L)

NoTable == [exists |-> FALSE, rows |-> <<>>]

\* ----------------------------------------------------------- configuration

\* initElector: which elector the process runs with, or "exit".
initElector(c) ==
    IF c.restElection /\ c.haGroupLockID # 0 THEN "exit"
    ELSE IF c.restElection THEN "rest"
    ELSE IF c.haGroupLockID = 0 THEN "nil"
    ELSE IF c.prometheusTimeout = -1 THEN "exit"
    ELSE "pglock"

\* An initElector that starts the liveness goroutine whatever the timeout.
LivenessMonitorStarted_Always(c) ==
    initElector(c) = "pglock"

\* The liveness goroutine of initElector is started.
LivenessMonitorStarted(c) ==
    initElector(c) = "pglock" /\ c.prometheusTimeout # 0

\* The state of a process with configuration c apart from where its main is.
InitProcess(c, srv, batches) ==
    /\ cfg = c
    /\ serving = srv
    /\ offered = batches
    /\ elector = [i \in Instances |-> initElector(c)]
    /\ now = 0
    /\ lastRequestUnixNano = [i \in Instances |-> 0]
    /\ receivedSamples = [i \in Instances |-> 0]
    /\ sentSamples = [i \in Instances |-> 0]
    /\ failedSamples = [i \in Instances |-> 0]
    /\ sentBatchDuration = [i \in Instances |-> 0]
    /\ pc = [r \in Reqs |-> "idle"]
    /\ inst = [r \in Reqs |-> "a"]
    /\ samples = [r \in Reqs |-> <<>>]
    /\ nowRead = [r \in Reqs |-> 0]
    /\ shouldWrite = [r \in Reqs |-> TRUE]
    /\ err = [r \in Reqs |-> "nil"]
    /\ conn = [r \in Reqs |-> NoConn]
    /\ ret = [r \in Reqs |-> "nil"]
    /\ writeInvoked = [r \in Reqs |-> 0]
    /\ cleanupLog = [r \in Reqs |-> "none"]
    /\ httpStatus = [r \in Reqs |-> 0]
    /\ warnLog = [r \in Reqs |-> FALSE]
    /\ throughputLog = [r \in Reqs |-> NoValue]
    /\ throughputCurrent = [i \in Instances |-> 0]
    /\ throughputPrevious = [i \in Instances |-> 0]
    /\ Values = [i \in Instances |-> <<>>]
    /\ labelsTable = {}
    /\ valuesTable = EmptyBag
    /\ labelsIdSeq = 1
    /\ tmpTable = [c0 \in Conns |-> NoTable]
    /\ connInUse = {}
    /\ lockHolder = "none"
    /\ isLeader = [i \in Instances |-> FALSE]
    /\ checkErr = [i \in Instances |-> FALSE]
    /\ lockSessionLost = [i \in Instances |-> FALSE]

\* metricMetaJson is not looked at on its own.
NoMetrics ==
    /\ metrics = <<>>
    /\ ranges = <<>>
    /\ metas = <<>>

\* Processes that have started and listen, pg-db-connect-retries left at its
\* default.
InitWith(c, srv, batches) ==
    /\ InitProcess(c, srv, batches)
    /\ NoMetrics
    /\ startPc = "listen"
    /\ dbConnectRetries = 0
    /\ connectAttempts = 0

\* ---------------------------------------------------------------- startup

\* What a step of main leaves alone.
StartFrame ==
    UNCHANGED <<cfg, offered, elector, now, dbConnectRetries, canonVars,
                lastRequestUnixNano, counterVars, reqVars, storeVars, poolVars,
                electionVars>>

\* buildClients: NewClient builds the connector and calls sql.OpenDB, which
\* opens no connection; cfg.dbConnectRetries is not read.
NewClient ==
    /\ startPc = "buildClients"
    /\ startPc' = "initElector"
    /\ UNCHANGED <<serving, connectAttempts>>
    /\ StartFrame

\* initElector ends the process on a configuration it rejects.
initElectorExit ==
    /\ startPc = "initElector"
    /\ initElector(cfg) = "exit"
    /\ startPc' = "exit"
    /\ UNCHANGED <<serving, connectAttempts>>
    /\ StartFrame

\* initElector returns nil or the REST elector, main goes on to
\* ListenAndServe: the store has not been contacted.
initElectorNoLock ==
    /\ startPc = "initElector"
    /\ initElector(cfg) \in {"nil", "rest"}
    /\ startPc' = "listen"
    /\ serving' = {"a"}
    /\ UNCHANGED connectAttempts
    /\ StartFrame

\* util.NewPgAdvisoryLock(cfg.haGroupLockID, db) returns a lock: the elector
\* is started and main goes on to ListenAndServe.
initElectorLock ==
    /\ startPc = "initElector"
    /\ initElector(cfg) = "pglock"
    /\ connectAttempts' = connectAttempts + 1
    /\ startPc' = "listen"
    /\ serving' = {"a"}
    /\ StartFrame

\* util.NewPgAdvisoryLock returns an error: "Error creating advisory lock" is
\* logged and os.Exit(1) follows at once.
initElectorLockFails ==
    /\ startPc = "initElector"
    /\ initElector(cfg) = "pglock"
    /\ connectAttempts' = connectAttempts + 1
    /\ startPc' = "exit"
    /\ UNCHANGED serving
    /\ StartFrame

\* ------------------------------------------------------------ Client.Write

\* What a step of Client.Write leaves alone besides the request's pc and err,
\* the store and the pool.
WriteFrame ==
    UNCHANGED <<globalVars, lastRequestUnixNano, counterVars, inst, samples,
                nowRead, shouldWrite, ret, writeInvoked, httpStatus, warnLog,
                throughputVars,
                electionVars>>

\* A step of the protocol fails with error e: Write returns through the
\* deferred cleanup.
FailStep(r, e) ==
    /\ err' = [err EXCEPT ![r] = e]
    /\ pc' = [pc EXCEPT ![r] = "cleanup"]
    /\ UNCHANGED <<conn, cleanupLog, storeVars, poolVars>>

\* A c.DB.Conn(ctx) that hands out a connection of the pool whether or not
\* another Write has it checked out.
WriteConn_SharedSession(r) ==
    /\ pc[r] = "conn"
    /\ \E c \in Conns :
        /\ c[1] = inst[r]
        /\ connInUse' = connInUse \cup {c}
        /\ conn' = [conn EXCEPT ![r] = c]
    /\ pc' = [pc EXCEPT ![r] = "create"]
    /\ UNCHANGED <<err, cleanupLog, storeVars, tmpTable>>
    /\ WriteFrame

\* c.DB.Conn(ctx): a free connection of the instance's pool.  With every
\* connection checked out the call blocks.
WriteConn(r) ==
    /\ pc[r] = "conn"
    /\ \E c \in Conns \ connInUse :
        /\ c[1] = inst[r]
        /\ connInUse' = connInUse \cup {c}
        /\ conn' = [conn EXCEPT ![r] = c]
    /\ pc' = [pc EXCEPT ![r] = "create"]
    /\ UNCHANGED <<err, cleanupLog, storeVars, tmpTable>>
    /\ WriteFrame

\* c.DB.Conn(ctx) fails: Write returns the error; no cleanup is deferred yet.
WriteConnFails(r) ==
    /\ pc[r] = "conn"
    /\ err' = [err EXCEPT ![r] = "Conn"]
    /\ pc' = [pc EXCEPT ![r] = "account"]
    /\ UNCHANGED <<conn, cleanupLog, storeVars, poolVars>>
    /\ WriteFrame

\* A sqlCreateTmpTable that says "create temporary table if not exists": a
\* table left in the session is taken over with its rows.
WriteCreateTmp_IfNotExists(r) ==
    /\ pc[r] = "create"
    /\ tmpTable' = [tmpTable EXCEPT ![conn[r]].exists = TRUE]
    /\ pc' = [pc EXCEPT ![r] = "copy"]
    /\ UNCHANGED <<err, conn, cleanupLog, storeVars, connInUse>>
    /\ WriteFrame

\* sqlCreateTmpTable: "create temporary table" creates the session's staging
\* table, and fails when the session already has one.
WriteCreateTmp(r) ==
    /\ pc[r] = "create"
    /\ IF tmpTable[conn[r]].exists
       THEN FailStep(r, "CreateTmp")
       ELSE /\ tmpTable' = [tmpTable EXCEPT ![conn[r]] =
                               [exists |-> TRUE, rows |-> <<>>]]
            /\ pc' = [pc EXCEPT ![r] = "copy"]
            /\ UNCHANGED <<err, conn, cleanupLog, storeVars, connInUse>>
    /\ WriteFrame

\* The create statement fails for the store's own reasons.
WriteCreateTmpFails(r) ==
    /\ pc[r] = "create"
    /\ ~tmpTable[conn[r]].exists
    /\ FailStep(r, "CreateTmp")
    /\ WriteFrame

\* The canonicalisation loop and CopyFrom: all rows of the batch are staged.
WriteCopy(r) ==
    /\ pc[r] = "copy"
    /\ tmpTable' = [tmpTable EXCEPT ![conn[r]].rows = @ \o InputRows(samples[r])]
    /\ pc' = [pc EXCEPT ![r] = "labels"]
    /\ UNCHANGED <<err, conn, cleanupLog, storeVars, connInUse>>
    /\ WriteFrame

\* CopyFrom fails: no row is staged.
WriteCopyFails(r) ==
    /\ pc[r] = "copy"
    /\ FailStep(r, "Copy")
    /\ WriteFrame

\* insertLabels on a staging table created "on commit delete rows": the commit
\* of the labels transaction empties it.
insertLabels_OnCommitDeleteRows(r) ==
    /\ pc[r] = "labels"
    /\ \E order \in Orders(DistinctLabels(tmpTable[conn[r]].rows)) :
        LET res == sqlInsertLabels(labelsTable, labelsIdSeq, order)
        IN /\ labelsTable' = res.labels
           /\ labelsIdSeq' = res.seq
    /\ tmpTable' = [tmpTable EXCEPT ![conn[r]].rows = <<>>]
    /\ pc' = [pc EXCEPT ![r] = "values"]
    /\ UNCHANGED <<err, conn, cleanupLog, valuesTable, connInUse>>
    /\ WriteFrame

\* insertLabels: copyFromTmpTableInTransaction(sqlInsertLabels) commits.
insertLabels(r) ==
    /\ pc[r] = "labels"
    /\ \E order \in Orders(DistinctLabels(tmpTable[conn[r]].rows)) :
        LET res == sqlInsertLabels(labelsTable, labelsIdSeq, order)
        IN /\ labelsTable' = res.labels
           /\ labelsIdSeq' = res.seq
    /\ pc' = [pc EXCEPT ![r] = "values"]
    /\ UNCHANGED <<err, conn, cleanupLog, valuesTable, poolVars>>
    /\ WriteFrame

\* A Write that goes on to insertValues after insertLabels failed.
insertLabelsFails_GoesOn(r) ==
    /\ pc[r] = "labels"
    /\ err' = [err EXCEPT ![r] = "Labels"]
    /\ pc' = [pc EXCEPT ![r] = "values"]
    /\ UNCHANGED <<conn, cleanupLog, storeVars, poolVars>>
    /\ WriteFrame

\* The labels transaction fails and is rolled back.
insertLabelsFails(r) ==
    /\ pc[r] = "labels"
    /\ FailStep(r, "Labels")
    /\ WriteFrame

\* insertValues: copyFromTmpTableInTransaction(sqlInsertValues) commits; Write
\* returns nil through the deferred cleanup.
insertValues(r) ==
    /\ pc[r] = "values"
    /\ valuesTable' = valuesTable
                      (+) sqlInsertValues(tmpTable[conn[r]].rows, labelsTable)
    /\ pc' = [pc EXCEPT ![r] = "cleanup"]
    /\ UNCHANGED <<err, conn, cleanupLog, labelsTable, labelsIdSeq, poolVars>>
    /\ WriteFrame

\* The values statement fails after its rows went in and nothing rolls them
\* back.
insertValuesFails_NoRollback(r) ==
    /\ pc[r] = "values"
    /\ valuesTable' = valuesTable
                      (+) sqlInsertValues(tmpTable[conn[r]].rows, labelsTable)
    /\ err' = [err EXCEPT ![r] = "Values"]
    /\ pc' = [pc EXCEPT ![r] = "cleanup"]
    /\ UNCHANGED <<conn, cleanupLog, labelsTable, labelsIdSeq, poolVars>>
    /\ WriteFrame

\* The values transaction fails and is rolled back.
insertValuesFails(r) ==
    /\ pc[r] = "values"
    /\ FailStep(r, "Values")
    /\ WriteFrame

\* A cleanup that forgets conn.Close(): the connection stays checked out.
ReleaseConn_Leak(r) ==
    /\ connInUse' = connInUse
    /\ pc' = [pc EXCEPT ![r] = "account"]
    /\ UNCHANGED <<err, conn, storeVars>>

\* conn.Close(): the connection goes back to the pool, and Write returns err
\* to sendSamples.
ReleaseConn(r) ==
    /\ connInUse' = connInUse \ {conn[r]}
    /\ pc' = [pc EXCEPT ![r] = "account"]
    /\ UNCHANGED <<err, conn, storeVars>>

\* The deferred cleanup: sqlTempTableCleanup drops the staging table; without
\* a table to drop the statement fails, which is only logged.
cleanup(r) ==
    /\ pc[r] = "cleanup"
    /\ IF tmpTable[conn[r]].exists
       THEN /\ tmpTable' = [tmpTable EXCEPT ![conn[r]] = NoTable]
            /\ cleanupLog' = cleanupLog
       ELSE /\ tmpTable' = tmpTable
            /\ cleanupLog' = [cleanupLog EXCEPT ![r] = "Failed to clean up temp table"]
    /\ ReleaseConn(r)
    /\ WriteFrame

\* A cleanup whose failed drop becomes the result of a Write that had none.
cleanupDropFails_ReturnsError(r) ==
    /\ pc[r] = "cleanup"
    /\ tmpTable[conn[r]].exists
    /\ tmpTable' = tmpTable
    /\ cleanupLog' = [cleanupLog EXCEPT ![r] = "Failed to clean up temp table"]
    /\ err' = [err EXCEPT ![r] = IF @ = "nil" THEN "Cleanup" ELSE @]
    /\ connInUse' = connInUse \ {conn[r]}
    /\ pc' = [pc EXCEPT ![r] = "account"]
    /\ UNCHANGED <<conn, storeVars>>
    /\ WriteFrame

\* The deferred cleanup when the drop fails for the store's own reasons: the
\* error is logged and the table stays in the session.
cleanupDropFails(r) ==
    /\ pc[r] = "cleanup"
    /\ tmpTable[conn[r]].exists
    /\ tmpTable' = tmpTable
    /\ cleanupLog' = [cleanupLog EXCEPT ![r] = "Failed to clean up temp table"]
    /\ ReleaseConn(r)
    /\ WriteFrame

\* ------------------------------------------------- write handler, sendSamples

\* A handler that decodes the request and calls sendSamples without counting
\* the samples it received.
write_NotCounted(r) ==
    /\ pc[r] = "idle"
    /\ \A q \in Reqs : q < r => pc[q] # "idle"
    /\ \E i \in serving, batch \in offered :
        /\ inst' = [inst EXCEPT ![r] = i]
        /\ samples' = [samples EXCEPT ![r] = batch]
        /\ nowRead' = [nowRead EXCEPT ![r] = now]
    /\ pc' = [pc EXCEPT ![r] = "send"]
    /\ UNCHANGED <<globalVars, lastRequestUnixNano, counterVars, shouldWrite,
                   err, conn, ret, writeInvoked, cleanupLog, httpStatus,
                   warnLog, throughputVars, storeVars, poolVars, electionVars>>

\* The write handler after decoding: receivedSamples.Add(len(samples)), then
\* sendSamples is called and reads the clock for the value it is about to
\* store.  Requests are numbered in their order of arrival.
write(r) ==
    /\ pc[r] = "idle"
    /\ \A q \in Reqs : q < r => pc[q] # "idle"
    /\ \E i \in serving, batch \in offered :
        /\ inst' = [inst EXCEPT ![r] = i]
        /\ samples' = [samples EXCEPT ![r] = batch]
        /\ nowRead' = [nowRead EXCEPT ![r] = now]
        /\ receivedSamples' = [receivedSamples EXCEPT ![i] = @ + Len(batch)]
    /\ pc' = [pc EXCEPT ![r] = "send"]
    /\ UNCHANGED <<globalVars, lastRequestUnixNano, sentSamples, failedSamples,
                   sentBatchDuration, shouldWrite, err, conn, ret, writeInvoked,
                   cleanupLog, httpStatus, warnLog, throughputVars, storeVars,
                   poolVars, electionVars>>

\* A sendSamples that goes to the leadership check without recording the
\* time.
sendSamplesStore_NoStore(r) ==
    /\ pc[r] = "send"
    /\ nowRead' = [nowRead EXCEPT ![r] = 0]
    /\ pc' = [pc EXCEPT ![r] = "gate"]
    /\ UNCHANGED <<globalVars, lastRequestUnixNano, counterVars, inst, samples,
                   shouldWrite, err, conn, ret, writeInvoked, cleanupLog,
                   httpStatus, warnLog, throughputVars, storeVars, poolVars,
                   electionVars>>

\* atomic.StoreInt64(&lastRequestUnixNano, time.Now().UnixNano()): the time
\* the call read is stored; other requests and the clock may have moved on
\* between the read and the store.
sendSamplesStore(r) ==
    /\ pc[r] = "send"
    /\ lastRequestUnixNano' = [lastRequestUnixNano EXCEPT ![inst[r]] = nowRead[r]]
    /\ nowRead' = [nowRead EXCEPT ![r] = 0]
    /\ pc' = [pc EXCEPT ![r] = "gate"]
    /\ UNCHANGED <<globalVars, counterVars, inst, samples, shouldWrite, err, conn,
                   ret, writeInvoked, cleanupLog, httpStatus, warnLog,
                   throughputVars, storeVars, poolVars, electionVars>>

\* Elector.IsLeader() of the advisory-lock elector: <<leader, error>>.
IsLeader(i) ==
    IF checkErr[i] THEN <<FALSE, "IsLeader check failed">>
    ELSE <<isLeader[i], "nil">>

\* w.Write(samples) is called.
CallWrite(r) ==
    /\ pc' = [pc EXCEPT ![r] = "conn"]
    /\ writeInvoked' = [writeInvoked EXCEPT ![r] = @ + 1]
    /\ UNCHANGED <<inst, samples, nowRead, err, conn, ret, cleanupLog,
                   httpStatus, warnLog, throughputVars>>

\* getCounterValue(counter) after sendSamples returned e for request r: the
\* sent-samples counter of the instance, which the call has raised by the
\* batch when Write succeeded.
getCounterValue(r, e) ==
    IF pc[r] = "account" /\ e = "nil"
    THEN sentSamples[inst[r]] + Len(samples[r])
    ELSE sentSamples[inst[r]]

\* writeThroughput.SetCurrent(v): the calculator keeps the last value it was
\* given.
SetCurrent(i, v) ==
    throughputCurrent' = [throughputCurrent EXCEPT ![i] = v]

\* select { case d := <-writeThroughput.Values: log d; default: }: a value in
\* the slot is taken and logged, an empty slot is passed by.
PollValues(r) ==
    LET i == inst[r]
    IN IF Values[i] # <<>>
       THEN /\ Values' = [Values EXCEPT ![i] = Tail(@)]
            /\ throughputLog' = [throughputLog EXCEPT ![r] = Head(Values[i])]
       ELSE UNCHANGED <<Values, throughputLog>>

\* A handler that answers an error of sendSamples with http.Error.
writeReply_ErrorStatus(r, e) ==
    /\ warnLog' = [warnLog EXCEPT ![r] = (e # "nil")]
    /\ httpStatus' = [httpStatus EXCEPT ![r] = IF e # "nil" THEN 500 ELSE 200]
    /\ SetCurrent(inst[r], getCounterValue(r, e))
    /\ PollValues(r)
    /\ UNCHANGED throughputPrevious

\* A handler that receives from writeThroughput.Values without a default
\* case: it waits until the calculator has published a value.
writeReply_BlockingReceive(r, e) ==
    /\ Values[inst[r]] # <<>>
    /\ warnLog' = [warnLog EXCEPT ![r] = (e # "nil")]
    /\ httpStatus' = [httpStatus EXCEPT ![r] = 200]
    /\ SetCurrent(inst[r], getCounterValue(r, e))
    /\ PollValues(r)
    /\ UNCHANGED throughputPrevious

\* The write handler after sendSamples returned e: an error is logged as a
\* warning, nothing is written to the response, the calculator is given the
\* sent-samples counter, the slot of the calculator is polled once, and the
\* handler returns, which answers 200.
writeReply(r, e) ==
    /\ warnLog' = [warnLog EXCEPT ![r] = (e # "nil")]
    /\ httpStatus' = [httpStatus EXCEPT ![r] = 200]
    /\ SetCurrent(inst[r], getCounterValue(r, e))
    /\ PollValues(r)
    /\ UNCHANGED throughputPrevious

\* sendSamples returns e and the handler completes: the request is over and
\* its locals are gone; what stays is what sendSamples returned, the batch it
\* carried, what was logged and the response.
Return(r, e) ==
    /\ ret' = [ret EXCEPT ![r] = e]
    /\ writeReply(r, e)
    /\ pc' = [pc EXCEPT ![r] = "done"]
    /\ inst' = [inst EXCEPT ![r] = "a"]
    /\ shouldWrite' = [shouldWrite EXCEPT ![r] = TRUE]
    /\ err' = [err EXCEPT ![r] = "nil"]
    /\ conn' = [conn EXCEPT ![r] = NoConn]
    /\ UNCHANGED <<samples, nowRead, cleanupLog>>

\* What the leadership gate leaves alone besides the request.
GateFrame ==
    UNCHANGED <<globalVars, lastRequestUnixNano, counterVars, storeVars,
                poolVars, electionVars>>

\* A sendSamples whose shouldWrite starts false: without an elector the batch
\* is dropped.
GateNoElector_DefaultsFalse(r) ==
    /\ pc[r] = "gate"
    /\ elector[inst[r]] = "nil"
    /\ Return(r, "nil")
    /\ UNCHANGED writeInvoked
    /\ GateFrame

\* elector == nil: shouldWrite stays true.
GateNoElector(r) ==
    /\ pc[r] = "gate"
    /\ elector[inst[r]] = "nil"
    /\ CallWrite(r)
    /\ UNCHANGED shouldWrite
    /\ GateFrame

\* The error of elector.IsLeader() taken for "not leader": nil is returned.
GateIsLeaderErr_AsNotLeader(r) ==
    /\ pc[r] = "gate"
    /\ elector[inst[r]] # "nil"
    /\ IsLeader(inst[r])[2] # "nil"
    /\ Return(r, "nil")
    /\ UNCHANGED writeInvoked
    /\ GateFrame

\* elector.IsLeader() returns an error: it is returned.
GateIsLeaderErr(r) ==
    /\ pc[r] = "gate"
    /\ elector[inst[r]] # "nil"
    /\ IsLeader(inst[r])[2] # "nil"
    /\ Return(r, IsLeader(inst[r])[2])
    /\ UNCHANGED writeInvoked
    /\ GateFrame

\* A gate that does not look at shouldWrite: the follower calls Write.
GateNotLeader_CallsWrite(r) ==
    /\ pc[r] = "gate"
    /\ elector[inst[r]] # "nil"
    /\ IsLeader(inst[r]) = <<FALSE, "nil">>
    /\ shouldWrite' = [shouldWrite EXCEPT ![r] = FALSE]
    /\ CallWrite(r)
    /\ GateFrame

\* shouldWrite is false: the batch is dropped, nil is returned.
GateNotLeader(r) ==
    /\ pc[r] = "gate"
    /\ elector[inst[r]] # "nil"
    /\ IsLeader(inst[r]) = <<FALSE, "nil">>
    /\ Return(r, "nil")
    /\ UNCHANGED writeInvoked
    /\ GateFrame

\* shouldWrite is true: Write is called.
GateLeader(r) ==
    /\ pc[r] = "gate"
    /\ elector[inst[r]] # "nil"
    /\ IsLeader(inst[r]) = <<TRUE, "nil">>
    /\ shouldWrite' = [shouldWrite EXCEPT ![r] = TRUE]
    /\ CallWrite(r)
    /\ GateFrame

\* A sendSamples without the return in the error branch: a failed batch is
\* counted as failed and as sent.
sendSamplesAccount_FallsThrough(r) ==
    /\ pc[r] = "account"
    /\ failedSamples' = IF err[r] # "nil"
                        THEN [failedSamples EXCEPT ![inst[r]] = @ + Len(samples[r])]
                        ELSE failedSamples
    /\ sentSamples' = [sentSamples EXCEPT ![inst[r]] = @ + Len(samples[r])]
    /\ sentBatchDuration' = [sentBatchDuration EXCEPT ![inst[r]] = @ + 1]
    /\ Return(r, "nil")
    /\ UNCHANGED <<globalVars, lastRequestUnixNano, receivedSamples, writeInvoked,
                   storeVars, poolVars, electionVars>>

\* A sendSamples that adds the batch to failedSamples before it looks at the
\* error of Write: a batch that was written counts as failed and as sent.
sendSamplesAccount_FailedAlways(r) ==
    /\ pc[r] = "account"
    /\ failedSamples' = [failedSamples EXCEPT ![inst[r]] = @ + Len(samples[r])]
    /\ IF err[r] # "nil"
       THEN UNCHANGED <<sentSamples, sentBatchDuration>>
       ELSE /\ sentSamples' = [sentSamples EXCEPT ![inst[r]] = @ + Len(samples[r])]
            /\ sentBatchDuration' = [sentBatchDuration EXCEPT ![inst[r]] = @ + 1]
    /\ Return(r, err[r])
    /\ UNCHANGED <<globalVars, lastRequestUnixNano, receivedSamples, writeInvoked,
                   storeVars, poolVars, electionVars>>

\* After Write returned: the failed counter and the error, or the sent counter
\* and one observation of the duration.
sendSamplesAccount(r) ==
    /\ pc[r] = "account"
    /\ IF err[r] # "nil"
       THEN /\ failedSamples' = [failedSamples EXCEPT ![inst[r]] = @ + Len(samples[r])]
            /\ UNCHANGED <<sentSamples, sentBatchDuration>>
       ELSE /\ sentSamples' = [sentSamples EXCEPT ![inst[r]] = @ + Len(samples[r])]
            /\ sentBatchDuration' = [sentBatchDuration EXCEPT ![inst[r]] = @ + 1]
            /\ UNCHANGED failedSamples
    /\ Return(r, err[r])
    /\ UNCHANGED <<globalVars, lastRequestUnixNano, receivedSamples, writeInvoked,
                   storeVars, poolVars, electionVars>>

\* --------------------------------------------------- advisory-lock election

\* The wall clock advances.
Tick ==
    /\ now < MaxTime
    /\ now' = now + 1
    /\ UNCHANGED <<cfg, serving, offered, elector, startVars, canonVars,
                   lastRequestUnixNano, counterVars, reqVars, storeVars,
                   poolVars, electionVars>>

\* The scheduled task of the advisory-lock backend: acquire or re-confirm the
\* lock.  Success: leader.  Held elsewhere: not leader, no error.  The check
\* itself fails (the lock session is lost): not leader, and IsLeader() reports
\* the error until a later check works on a new session.
ScheduledElection(i) ==
    /\ elector[i] = "pglock"
    /\ IF lockSessionLost[i]
       THEN /\ isLeader' = [isLeader EXCEPT ![i] = FALSE]
            /\ checkErr' = [checkErr EXCEPT ![i] = TRUE]
            /\ lockSessionLost' = [lockSessionLost EXCEPT ![i] = FALSE]
            /\ lockHolder' = lockHolder
       ELSE IF lockHolder \in {"none", i}
       THEN /\ lockHolder' = i
            /\ isLeader' = [isLeader EXCEPT ![i] = TRUE]
            /\ checkErr' = [checkErr EXCEPT ![i] = FALSE]
            /\ lockSessionLost' = lockSessionLost
       ELSE /\ isLeader' = [isLeader EXCEPT ![i] = FALSE]
            /\ checkErr' = [checkErr EXCEPT ![i] = FALSE]
            /\ UNCHANGED <<lockHolder, lockSessionLost>>
    /\ UNCHANGED <<globalVars, lastRequestUnixNano, counterVars, reqVars,
                   storeVars, poolVars>>

\* The session holding the advisory lock is lost: the store releases the
\* session's lock; the instance learns of it at its next scheduled check.
LoseLockSession(i) ==
    /\ elector[i] = "pglock"
    /\ ~lockSessionLost[i]
    /\ lockSessionLost' = [lockSessionLost EXCEPT ![i] = TRUE]
    /\ lockHolder' = IF lockHolder = i THEN "none" ELSE lockHolder
    /\ UNCHANGED <<globalVars, lastRequestUnixNano, counterVars, reqVars,
                   storeVars, poolVars, isLeader, checkErr>>

\* The idle duration exceeds the timeout.
IdleTooLong(lastReq, timeout) == now - lastReq > timeout

\* A resignation that only flips the state and keeps the lock.
PrometheusLivenessCheck_KeepsLock(i, lastReq, timeout) ==
    IF IdleTooLong(lastReq, timeout)
    THEN /\ isLeader' = [isLeader EXCEPT ![i] = FALSE]
         /\ UNCHANGED <<lockHolder, checkErr, lockSessionLost>>
    ELSE UNCHANGED electionVars

\* PrometheusLivenessCheck(lastReq, timeout): when the idle duration exceeds
\* the timeout the coordinator releases the lock and becomes Follower.
PrometheusLivenessCheck(i, lastReq, timeout) ==
    IF IdleTooLong(lastReq, timeout)
    THEN /\ lockHolder' = IF lockHolder = i THEN "none" ELSE lockHolder
         /\ isLeader' = [isLeader EXCEPT ![i] = FALSE]
         /\ UNCHANGED <<checkErr, lockSessionLost>>
    ELSE UNCHANGED electionVars

\* A liveness goroutine that passes a zero timeout instead of the flag's.
LivenessTick_ZeroTimeout(i) ==
    /\ LivenessMonitorStarted(cfg)
    /\ elector[i] = "pglock"
    /\ PrometheusLivenessCheck(i, lastRequestUnixNano[i], 0)
    /\ UNCHANGED <<globalVars, lastRequestUnixNano, counterVars, reqVars,
                   storeVars, poolVars>>

\* One round of the liveness goroutine of initElector: load
\* lastRequestUnixNano, call PrometheusLivenessCheck.
LivenessTick(i) ==
    /\ LivenessMonitorStarted(cfg)
    /\ elector[i] = "pglock"
    /\ PrometheusLivenessCheck(i, lastRequestUnixNano[i], cfg.prometheusTimeout)
    /\ UNCHANGED <<globalVars, lastRequestUnixNano, counterVars, reqVars,
                   storeVars, poolVars>>

\* ---------------------------------------------------- throughput calculator

\* One tick of the calculator of instance i: the delta of the counter since
\* the previous tick is offered to the slot and dropped when the slot is
\* taken; the tick itself never waits.
ThroughputTick(i) ==
    /\ i \in serving
    /\ throughputPrevious' = [throughputPrevious EXCEPT ![i] = throughputCurrent[i]]
    /\ Values' = [Values EXCEPT ![i] =
                    IF @ = <<>>
                    THEN Append(@, throughputCurrent[i] - throughputPrevious[i])
                    ELSE @]
    /\ UNCHANGED <<globalVars, lastRequestUnixNano, counterVars, pc, inst,
                   samples, nowRead, shouldWrite, err, conn, ret, writeInvoked,
                   cleanupLog, httpStatus, warnLog, throughputLog,
                   throughputCurrent, storeVars, poolVars, electionVars>>

\* ------------------------------------------------------------ specifications

\* Client.Write on a store that answers every statement.
WriteStep(r) ==
    \/ WriteConn(r)
    \/ WriteCreateTmp(r)
    \/ WriteCopy(r)
    \/ insertLabels(r)
    \/ insertValues(r)
    \/ cleanup(r)

\* A statement of Client.Write fails for the store's own reasons.
WriteFault(r) ==
    \/ WriteConnFails(r)
    \/ WriteCreateTmpFails(r)
    \/ WriteCopyFails(r)
    \/ insertLabelsFails(r)
    \/ insertValuesFails(r)
    \/ cleanupDropFails(r)

\* Two instances of one high-availability group on the advisory lock.  Of the
\* store's faults, the loss of the lock session and of the pool's connection
\* are covered here; SpecWriter covers the faults inside Client.Write.
Init ==
    InitWith([haGroupLockID |-> 1, prometheusTimeout |-> IdleTimeout,
              restElection |-> FALSE], Instances, {BatchSame})

Next ==
    \/ \E r \in Reqs :
        \/ write(r)
        \/ sendSamplesStore(r)
        \/ GateIsLeaderErr(r)
        \/ GateNotLeader(r)
        \/ GateLeader(r)
        \/ WriteStep(r)
        \/ WriteConnFails(r)
        \/ sendSamplesAccount(r)
    \/ \E i \in Instances :
        \/ ScheduledElection(i)
        \/ LoseLockSession(i)
        \/ LivenessTick(i)
    \/ Tick

Spec == Init /\ [][Next]_vars

\* One instance without leader election (the flags' defaults), on a store
\* whose every statement may fail.
InitWriter ==
    InitWith([haGroupLockID |-> 0, prometheusTimeout |-> -1,
              restElection |-> FALSE], {"a"}, Batches)

NextWriter ==
    \E r \in Reqs :
        \/ write(r)
        \/ sendSamplesStore(r)
        \/ GateNoElector(r)
        \/ WriteStep(r)
        \/ WriteFault(r)
        \/ sendSamplesAccount(r)

SpecWriter == InitWriter /\ [][NextWriter]_vars

\* A healthy store: no lock session is lost and no statement fails.
NextHealthy ==
    \/ \E r \in Reqs :
        \/ write(r)
        \/ sendSamplesStore(r)
        \/ GateNotLeader(r)
        \/ GateLeader(r)
        \/ WriteStep(r)
        \/ sendSamplesAccount(r)
    \/ \E i \in Instances :
        \/ ScheduledElection(i)
        \/ LivenessTick(i)
    \/ Tick

\* A request that has arrived is served to its end.
Serve ==
    \E r \in Reqs :
        \/ sendSamplesStore(r)
        \/ GateNotLeader(r)
        \/ GateLeader(r)
        \/ WriteStep(r)
        \/ sendSamplesAccount(r)

\* The tickers keep firing, the clock keeps running, handlers keep going.
SpecFair ==
    /\ Init
    /\ [][NextHealthy]_vars
    /\ \A i \in Instances : WF_vars(ScheduledElection(i))
    /\ \A i \in Instances : WF_vars(LivenessTick(i))
    /\ WF_vars(Tick)
    /\ WF_vars(Serve)

\* The idle-resignation timeouts tried: an arbitrary negative one, the flag's
\* default, none, and a positive one.
Timeouts == {-2, -1, 0, IdleTimeout}

\* The configurations tried: the advisory lock with each timeout, no
\* election, REST election, and both elections at once.
Configs ==
    {[haGroupLockID |-> 1, prometheusTimeout |-> t, restElection |-> FALSE] :
        t \in Timeouts}
    \cup {[haGroupLockID |-> 0, prometheusTimeout |-> -1, restElection |-> FALSE],
          [haGroupLockID |-> 0, prometheusTimeout |-> -1, restElection |-> TRUE],
          [haGroupLockID |-> 1, prometheusTimeout |-> IdleTimeout,
           restElection |-> TRUE]}

\* The adapters that serve requests: a process that initElector ended serves
\* none.
ServingWith(c) == IF initElector(c) = "exit" THEN {} ELSE {"a"}

\* Two adapters started with one of the configurations; the upstream talks
\* to one of them.
InitConfig == \E c \in Configs : InitWith(c, ServingWith(c), {BatchSame})

NextConfig ==
    \/ \E r \in Reqs :
        \/ write(r)
        \/ sendSamplesStore(r)
        \/ GateNoElector(r)
        \/ GateIsLeaderErr(r)
        \/ GateNotLeader(r)
        \/ GateLeader(r)
        \/ WriteStep(r)
        \/ sendSamplesAccount(r)
    \/ \E i \in Instances :
        \/ ScheduledElection(i)
        \/ LoseLockSession(i)
        \/ LivenessTick(i)
    \/ Tick

SpecConfig == InitConfig /\ [][NextConfig]_vars

\* The configurations a process is started with: no election, the advisory
\* lock, the REST election, and both elections at once.
StartConfigs ==
    {[haGroupLockID |-> 0, prometheusTimeout |-> -1, restElection |-> FALSE],
     [haGroupLockID |-> 1, prometheusTimeout |-> IdleTimeout, restElection |-> FALSE],
     [haGroupLockID |-> 0, prometheusTimeout |-> -1, restElection |-> TRUE],
     [haGroupLockID |-> 1, prometheusTimeout |-> IdleTimeout, restElection |-> TRUE]}

\* main after parseFlags: nothing is served yet.
InitStartup ==
    \E c \in StartConfigs, k \in 0..MaxRetries :
        /\ InitProcess(c, {}, {BatchSame})
        /\ NoMetrics
        /\ startPc = "buildClients"
        /\ dbConnectRetries = k
        /\ connectAttempts = 0

\* The election ticker and the liveness goroutine run once initElector has
\* started them.
StartedScheduledElection(i) == i \in serving /\ ScheduledElection(i)

StartedLoseLockSession(i) == i \in serving /\ LoseLockSession(i)

StartedLivenessTick(i) == i \in serving /\ LivenessTick(i)

\* One process from main on, with a store that may be unreachable when the
\* advisory lock is created and when a Write asks for a connection.
NextStartup ==
    \/ NewClient
    \/ initElectorExit
    \/ initElectorNoLock
    \/ initElectorLock
    \/ initElectorLockFails
    \/ \E r \in Reqs :
        \/ write(r)
        \/ sendSamplesStore(r)
        \/ GateNoElector(r)
        \/ GateIsLeaderErr(r)
        \/ GateNotLeader(r)
        \/ GateLeader(r)
        \/ WriteStep(r)
        \/ WriteConnFails(r)
        \/ sendSamplesAccount(r)
    \/ \E i \in Instances :
        \/ StartedScheduledElection(i)
        \/ StartedLoseLockSession(i)
        \/ StartedLivenessTick(i)
    \/ Tick

SpecStartup == InitStartup /\ [][NextStartup]_vars

\* One instance without leader election whose throughput calculator ticks
\* while requests are served; the store may refuse a connection.
NextThroughput ==
    \/ \E r \in Reqs :
        \/ write(r)
        \/ sendSamplesStore(r)
        \/ GateNoElector(r)
        \/ WriteStep(r)
        \/ WriteConnFails(r)
        \/ sendSamplesAccount(r)
    \/ \E i \in Instances : ThroughputTick(i)

SpecThroughput == InitWriter /\ [][NextThroughput]_vars

\* Label names and values of the mappings given to metricMetaJson: the
\* reserved name, "a" and "a!"; "a", "<" and two bytes that are not valid
\* UTF-8.
LabelNames == {MetricNameLabel, <<97>>, <<97, 33>>}
LabelValues == {<<97>>, <<60>>, <<254>>, <<255>>}

\* model.Metric: the mappings of some of the names to values.
Metrics == UNION {[D -> LabelValues] : D \in SUBSET LabelNames}

\* Two mappings, each with an order in which range visits it.
InitCanon ==
    /\ InitProcess([haGroupLockID |-> 0, prometheusTimeout |-> -1,
                    restElection |-> FALSE], {}, {})
    /\ startPc = "listen"
    /\ dbConnectRetries = 0
    /\ connectAttempts = 0
    /\ \E m1, m2 \in Metrics :
        \E o1 \in Orders(DOMAIN m1), o2 \in Orders(DOMAIN m2) :
            /\ metrics = <<m1, m2>>
            /\ ranges = <<o1, o2>>
    /\ metas = <<>>

\* metricMetaJson is called for both mappings.
CallMetricMetaJson ==
    /\ metrics # <<>>
    /\ metas = <<>>
    /\ metas' = <<metricMetaJsonRange(metrics[1], ranges[1]),
                  metricMetaJsonRange(metrics[2], ranges[2])>>
    /\ UNCHANGED <<cfg, serving, offered, elector, now, startVars, metrics,
                   ranges, lastRequestUnixNano, counterVars, reqVars, storeVars,
                   poolVars, electionVars>>

NextCanon == CallMetricMetaJson

SpecCanon == InitCanon /\ [][NextCanon]_vars

\* ------------------------------------------------------------------ claims

\* Request r takes its step through the leadership gate.
GateStep(r) == pc[r] = "gate" /\ pc'[r] # "gate"

\* A request that is over stays over, and Write is not called for it again.
DoneIsFinal(r) ==
    pc[r] = "done" => pc'[r] = "done" /\ writeInvoked'[r] = writeInvoked[r]

\* The step changes no sent/failed counter, no duration histogram, and does
\* not touch the store.
NothingMetered ==
    UNCHANGED <<sentSamples, failedSamples, sentBatchDuration, storeVars, poolVars>>

\* C1: with an elector configured and IsLeader() = (false, nil), sendSamples
\* returns nil without ever calling Write, and neither the sent counter, the
\* failed counter nor the duration histogram changes.
C1_NotLeaderDrops ==
    [][\A r \in Reqs :
        /\ (GateStep(r) /\ elector[inst[r]] # "nil"
                /\ IsLeader(inst[r]) = <<FALSE, "nil">>)
            => /\ pc'[r] = "done"
               /\ ret'[r] = "nil"
               /\ writeInvoked'[r] = 0
               /\ NothingMetered
        /\ DoneIsFinal(r)]_vars

\* A batch was dropped at the gate of a follower: nil returned, Write never
\* called, nothing sent or failed anywhere.
C1_Witness ==
    /\ \E r \in Reqs : pc[r] = "done" /\ ret[r] = "nil" /\ writeInvoked[r] = 0
    /\ \A i \in Instances : sentSamples[i] = 0 /\ failedSamples[i] = 0
    /\ \E i \in Instances : receivedSamples[i] > 0

\* C2: with an elector configured and IsLeader() returning an error,
\* sendSamples returns that error without ever calling Write, and no
\* sent/failed counter or duration histogram changes.
C2_IsLeaderErrorAborts ==
    [][\A r \in Reqs :
        /\ (GateStep(r) /\ elector[inst[r]] # "nil"
                /\ IsLeader(inst[r])[2] # "nil")
            => /\ pc'[r] = "done"
               /\ ret'[r] = IsLeader(inst[r])[2]
               /\ ret'[r] # "nil"
               /\ writeInvoked'[r] = 0
               /\ NothingMetered
        /\ DoneIsFinal(r)]_vars

\* A request ended with the error of the leadership check, Write never called.
C2_Witness ==
    /\ \E r \in Reqs :
        pc[r] = "done" /\ ret[r] = "IsLeader check failed" /\ writeInvoked[r] = 0
    /\ \A i \in Instances : sentSamples[i] = 0 /\ failedSamples[i] = 0

\* Request r is executing Client.Write.
InWrite(r) == pc[r] \in {"conn", "create", "copy", "labels", "values", "cleanup"}

\* C3: two instances sharing the advisory lock are never both executing Write
\* for gated batches at the same time.
C3_NoDoubleWrite ==
    \A r1, r2 \in Reqs :
        (r1 # r2 /\ InWrite(r1) /\ InWrite(r2)) => inst[r1] = inst[r2]

\* Request r holds a session of the pool.
HoldsConn(r) == pc[r] \in {"create", "copy", "labels", "values", "cleanup"}

\* The deferred cleanup of request r runs and Write returns.
WriteReturns(r) == pc[r] = "cleanup" /\ pc'[r] = "account"

\* The sessions checked out are exactly those of the Writes in progress.
OnlyWritersHoldSessions ==
    connInUse = {conn[r] : r \in {q \in Reqs : HoldsConn(q)}}

LabelsCommit(r) == pc[r] = "labels" /\ pc'[r] = "values"

\* The values transaction of request r commits.
ValuesCommit(r) == pc[r] = "values" /\ pc'[r] = "cleanup" /\ err'[r] = "nil"

\* The stores a single successful Write of batch B leaves behind, started on
\* the empty store.
WriteEffects(B) ==
    {LET res == sqlInsertLabels({}, 1, o)
     IN [labels |-> res.labels,
         values |-> sqlInsertValues(InputRows(B), res.labels)] :
        o \in Orders(DistinctLabels(InputRows(B)))}

\* Write of batch B by r1 has failed in the values transaction and returned,
\* r2 carries the same B, and no other request has arrived.
FailedBefore(r1, r2) ==
    /\ r1 # r2
    /\ pc[r1] = "done" /\ ret[r1] = "Values"
    /\ samples[r1] = samples[r2]
    /\ \A q \in Reqs \ {r1, r2} : pc[q] = "idle"

\* C5: when a Write of B fails after its labels committed and before its
\* values did, a later successful Write of the identical B leaves the labels
\* and values tables exactly as a single successful Write of B would have.
C5_RetryAfterPartialFailure ==
    [][\A r1, r2 \in Reqs :
        (FailedBefore(r1, r2) /\ ValuesCommit(r2)) =>
            [labels |-> labelsTable', values |-> valuesTable']
                \in WriteEffects(samples[r2])]_vars

\* The retry of a batch of two label sets has committed its values after the
\* first Write of it failed in the values transaction.
C5_Witness ==
    \E r1, r2 \in Reqs :
        /\ FailedBefore(r1, r2)
        /\ pc[r2] = "cleanup" /\ err[r2] = "nil"
        /\ samples[r2] = BatchMixed
        /\ labelsIdSeq = 5
        /\ Cardinality(labelsTable) = 2
        /\ BagCardinality(valuesTable) = 2

\* No two rows of the labels table carry the same (metric_name, labels).
UniqueLabels ==
    \A l1, l2 \in labelsTable :
        (l1.metric_name = l2.metric_name /\ l1.labels = l2.labels) => l1 = l2

\* C6: the labels table holds at most one row per (metric name, canonical
\* labels text), and a row once stored keeps its id.
C6_LabelUniqueness ==
    /\ []UniqueLabels
    /\ [][labelsTable \subseteq labelsTable']_vars

\* Two Writes of the same two label sets succeeded and the table has two rows.
C6_Witness ==
    /\ \E r1, r2 \in Reqs :
        /\ r1 # r2
        /\ pc[r1] = "done" /\ ret[r1] = "nil" /\ samples[r1] = BatchMixed
        /\ pc[r2] = "done" /\ ret[r2] = "nil" /\ samples[r2] = BatchMixed
    /\ Cardinality(labelsTable) = 2
    /\ labelsIdSeq = 5

\* The labels rows of metric m.
LabelRowsOf(L, m) ==
    {l \in L : <<l.metric_name, l.labels>> = metricMetaJson(m)}

\* One values row per sample of the batch, each with the id of its labels row
\* in L.
RECURSIVE ExpectedValueRows(_, _)
ExpectedValueRows(batch, L) ==
    IF batch = <<>> THEN EmptyBag
    ELSE LET s == Head(batch)
             l == CHOOSE x \in LabelRowsOf(L, s.Metric) : TRUE
         IN SetToBag({[time |-> s.Timestamp, value |-> s.Value,
                       labels_id |-> l.id]})
            (+) ExpectedValueRows(Tail(batch), L)

\* The (metric name, labels text) pairs of the batch that have no labels row.
MissingLabels(batch, L) ==
    {k \in {metricMetaJson(batch[n].Metric) : n \in DOMAIN batch} :
        ~\E l \in L : <<l.metric_name, l.labels>> = k}

\* C7: a successful Write adds exactly one labels row for each distinct label
\* set of the batch that was not stored yet, and exactly one values row per
\* sample, whose labels_id is not null and is the id of the labels row of that
\* sample's label set.
C7_WriteCompleteness ==
    [][\A r \in Reqs :
        /\ LabelsCommit(r) =>
            LET missing == MissingLabels(samples[r], labelsTable)
                added == labelsTable' \ labelsTable
            IN /\ labelsTable \subseteq labelsTable'
               /\ Cardinality(added) = Cardinality(missing)
               /\ \A k \in missing :
                    \E l \in added : <<l.metric_name, l.labels>> = k
        /\ ValuesCommit(r) =>
            /\ \A n \in DOMAIN samples[r] :
                Cardinality(LabelRowsOf(labelsTable, samples[r][n].Metric)) = 1
            /\ valuesTable' =
                valuesTable (+) ExpectedValueRows(samples[r], labelsTable)
            /\ BagCardinality(valuesTable') =
                BagCardinality(valuesTable) + Len(samples[r])
            /\ \A row \in BagToSet(valuesTable') : row.labels_id # NULL]_vars

\* A Write of two samples of one label set succeeded on the empty store: one
\* labels row, two values rows that reference it.
C7_Witness ==
    /\ \E r \in Reqs : pc[r] = "done" /\ ret[r] = "nil" /\ samples[r] = BatchSame
    /\ Cardinality(labelsTable) = 1
    /\ BagCardinality(valuesTable) = 2
    /\ \A row \in BagToSet(valuesTable) : \E l \in labelsTable : row.labels_id = l.id

\* Instance i has been idle for longer than the configured timeout.
Idle(i) == now - lastRequestUnixNano[i] > cfg.prometheusTimeout

\* C8: with a positive timeout T, when the liveness check of an instance
\* observes now - LivenessState > T, the instance has released the lock and
\* is Follower afterwards, also when its last scheduled tick had succeeded.
C8_IdleResignation ==
    [][\A i \in Instances :
        (cfg.prometheusTimeout > 0 /\ LivenessTick(i) /\ Idle(i))
            => ~isLeader'[i] /\ lockHolder' # i]_vars

\* An instance that wrote as leader has gone idle and resigned: it is
\* Follower and the lock is free.
C8_Witness ==
    \E i \in Instances :
        /\ sentSamples[i] > 0
        /\ Idle(i)
        /\ ~isLeader[i] /\ ~checkErr[i] /\ ~lockSessionLost[i]
        /\ lockHolder = "none"

\* Instance i leads, is idle beyond the timeout, and no request will store a
\* new arrival time any more.
IdleForGood(i) ==
    /\ isLeader[i] /\ lockHolder = i
    /\ Idle(i)
    /\ \A r \in Reqs : pc[r] \notin {"idle", "send"}

\* C9: once the leader has stopped receiving batches for longer than T while
\* the other replica keeps running its scheduled ticks, the other replica
\* becomes Leader; the idle instance does not hold or re-take the lock for
\* ever.
C9_TakeoverAfterIdleResignation ==
    \A i \in Instances :
        IdleForGood(i) ~> (\E j \in Instances \ {i} : isLeader[j] /\ lockHolder = j)

\* C10: every instance starts as Follower; it becomes Leader only by a
\* scheduled acquisition of the free lock, and Follower only by a scheduled
\* check that does not confirm the lock or by an idle resignation; the gate
\* lets a batch through to Write only on an instance that is Leader, so the
\* batches arriving before the first acquisition are dropped.
C10_ElectionStateMachine ==
    /\ \A i \in Instances : ~isLeader[i]
    /\ [][\A i \in Instances :
            /\ (~isLeader[i] /\ isLeader'[i])
                => ScheduledElection(i) /\ lockHolder = "none" /\ lockHolder' = i
            /\ (isLeader[i] /\ ~isLeader'[i])
                => \/ ScheduledElection(i) /\ lockHolder' # i
                   \/ LivenessTick(i) /\ Idle(i)]_vars
    /\ [][\A r \in Reqs :
            (GateStep(r) /\ pc'[r] = "conn") => isLeader[inst[r]]]_vars

\* A batch was dropped while nobody led, and an instance has become Leader by
\* acquiring the lock since.
C10_Witness ==
    /\ \E r \in Reqs : pc[r] = "done" /\ ret[r] = "nil" /\ writeInvoked[r] = 0
    /\ \A i \in Instances : sentSamples[i] = 0 /\ failedSamples[i] = 0
    /\ \A r \in Reqs : pc[r] \in {"idle", "done"} /\ writeInvoked[r] = 0
    /\ \E i \in Instances : isLeader[i] /\ lockHolder = i

\* C11: at any time at most one instance on the advisory lock has
\* ElectionState.isLeader = true, whatever the interleaving of scheduled
\* ticks, losses of the lock session and idle resignations.
C11_AtMostOneLeader ==
    \A i, j \in Instances : (isLeader[i] /\ isLeader[j]) => i = j

\* The advisory-lock backend is selected by the flags.
AdvisoryLockSelected == cfg.haGroupLockID # 0 /\ ~cfg.restElection

\* C12: with the advisory-lock backend selected every negative timeout T is
\* rejected at configuration time: initElector ends the process, and neither
\* the elector nor the liveness monitor is started with a negative T.
C12_NegativeTimeoutRejected ==
    (AdvisoryLockSelected /\ cfg.prometheusTimeout < 0)
        => /\ \A i \in Instances : elector[i] = "exit"
           /\ ~LivenessMonitorStarted(cfg)

\* C13: with T = 0 the liveness monitor is never started, so an instance
\* never goes from Leader to Follower because of idleness, however long no
\* batch arrives; only a scheduled check that does not confirm the lock
\* demotes it.
C13_ZeroTimeoutNeverResigns ==
    /\ [](cfg.prometheusTimeout = 0 => ~LivenessMonitorStarted(cfg))
    /\ [][(AdvisoryLockSelected /\ cfg.prometheusTimeout = 0) =>
            \A i \in Instances :
                (isLeader[i] /\ ~isLeader'[i])
                    => ScheduledElection(i) /\ lockHolder' # i]_vars

\* With T = 0 an instance is still Leader after being idle for longer than
\* the positive timeout tried elsewhere.
C13_Witness ==
    /\ AdvisoryLockSelected
    /\ cfg.prometheusTimeout = 0
    /\ \E i \in Instances :
        /\ isLeader[i] /\ lockHolder = i
        /\ now - lastRequestUnixNano[i] > IdleTimeout

\* The samples of the requests in R that are over.
RECURSIVE DoneSamples(_)
DoneSamples(R) ==
    IF R = {} THEN 0
    ELSE LET r == CHOOSE x \in R : TRUE
         IN (IF pc[r] = "done" THEN Len(samples[r]) ELSE 0)
            + DoneSamples(R \ {r})

\* C14: without an election backend (elector is nil) sendSamples treats every
\* request as leader: Write is called exactly once for every batch, and the
\* batch is counted as sent or as failed.
C14_NoElectorAlwaysWrites ==
    /\ [][\A r \in Reqs :
            /\ (GateStep(r) /\ elector[inst[r]] = "nil")
                => pc'[r] = "conn" /\ writeInvoked'[r] = 1
            /\ DoneIsFinal(r)]_vars
    /\ []((\A i \in Instances : elector[i] = "nil") =>
            /\ \A r \in Reqs : pc[r] = "done" => writeInvoked[r] = 1
            /\ sentSamples["a"] + failedSamples["a"] = DoneSamples(Reqs))

\* Without an elector one batch was written and counted as sent, another
\* failed in Write and was counted as failed.
C14_Witness ==
    /\ \A i \in Instances : elector[i] = "nil"
    /\ \E r1, r2 \in Reqs :
        /\ pc[r1] = "done" /\ ret[r1] = "nil" /\ writeInvoked[r1] = 1
        /\ pc[r2] = "done" /\ ret[r2] # "nil" /\ writeInvoked[r2] = 1
    /\ sentSamples["a"] > 0
    /\ failedSamples["a"] > 0

\* Request r leaves the first statement of sendSamples.
StoreStep(r) == pc[r] = "send" /\ pc'[r] # "send"

\* Every request passes the first statement of sendSamples on its way to the
\* leadership check, and that statement stores the time the call read.
StoredBeforeGate ==
    \A r \in Reqs :
        /\ pc[r] = "idle" => pc'[r] \in {"idle", "send"}
        /\ StoreStep(r) =>
            /\ pc'[r] = "gate"
            /\ lastRequestUnixNano'[inst[r]] = nowRead[r]
        /\ (pc[r] # "gate" /\ pc'[r] = "gate") => pc[r] = "send"

\* C15 as stated: every sendSamples call stores the current time into
\* LivenessState before the leadership check, on every path, and LivenessState
\* never decreases.
C15_LivenessStateNeverDecreases ==
    [][/\ StoredBeforeGate
       /\ \A i \in Instances :
            lastRequestUnixNano'[i] >= lastRequestUnixNano[i]]_vars

\* C15: every sendSamples call stores the time it read at its start into
\* LivenessState before the leadership check, on every path; LivenessState
\* changes in no other way, so it is always the start time of the call that
\* stored last.
C15_StoresTimeReadAtStart ==
    [][/\ StoredBeforeGate
       /\ \A i \in Instances :
            lastRequestUnixNano'[i] # lastRequestUnixNano[i]
                => \E r \in Reqs : /\ inst[r] = i
                                   /\ StoreStep(r)
                                   /\ lastRequestUnixNano'[i] = nowRead[r]]_vars

\* A batch was dropped at the gate of a follower, and its arrival time is in
\* LivenessState all the same.
C15_Witness ==
    \E i \in Instances :
        /\ lastRequestUnixNano[i] > 0
        /\ receivedSamples[i] > 0
        /\ sentSamples[i] = 0 /\ failedSamples[i] = 0
        /\ \A r \in Reqs : pc[r] = "done" /\ writeInvoked[r] = 0

\* Write has returned to sendSamples, which accounts the outcome and returns.
AccountStep(r) == pc[r] = "account" /\ pc'[r] # "account"

\* The metrics of every instance but i are left alone.
OthersUnmetered(i) ==
    \A j \in Instances \ {i} :
        /\ sentSamples'[j] = sentSamples[j]
        /\ failedSamples'[j] = failedSamples[j]
        /\ sentBatchDuration'[j] = sentBatchDuration[j]

\* C16: when Write was invoked for a batch of n samples exactly one of two
\* things happens.  Write erred: failed-samples += n, sent-samples and the
\* duration histogram unchanged, the error returned.  Write succeeded:
\* sent-samples += n, one duration observation, failed-samples unchanged, nil
\* returned.  Nothing else changes these metrics.
C16_OutcomeAccounting ==
    [][/\ \A r \in Reqs :
            AccountStep(r) =>
                LET i == inst[r]
                    n == Len(samples[r])
                IN /\ writeInvoked[r] = 1
                   /\ pc'[r] = "done"
                   /\ ret'[r] = err[r]
                   /\ OthersUnmetered(i)
                   /\ IF err[r] # "nil"
                      THEN /\ failedSamples'[i] = failedSamples[i] + n
                           /\ sentSamples'[i] = sentSamples[i]
                           /\ sentBatchDuration'[i] = sentBatchDuration[i]
                      ELSE /\ sentSamples'[i] = sentSamples[i] + n
                           /\ sentBatchDuration'[i] = sentBatchDuration[i] + 1
                           /\ failedSamples'[i] = failedSamples[i]
       /\ (\A r \in Reqs : ~AccountStep(r))
            => UNCHANGED <<sentSamples, failedSamples, sentBatchDuration>>
       /\ \A r \in Reqs :
            (pc[r] \in {"conn", "cleanup"} /\ pc'[r] \notin {pc[r], "create", "cleanup"})
                => pc'[r] = "account"]_vars

\* One Write failed and one succeeded: the batch of the first is in the failed
\* counter, that of the second in the sent counter with one observation.
C16_Witness ==
    /\ \E r1, r2 \in Reqs :
        /\ pc[r1] = "done" /\ ret[r1] = "Copy"
        /\ pc[r2] = "done" /\ ret[r2] = "nil" /\ writeInvoked[r2] = 1
        /\ failedSamples["a"] = Len(samples[r1])
        /\ sentSamples["a"] = Len(samples[r2])
    /\ sentBatchDuration["a"] = 1

\* C17: a write/storage error never makes the inbound request fail: when
\* Write returns an error the handler still completes without an error
\* response; the only effects are the failed-samples counter and a log entry,
\* and the write is not tried again.
C17_WriteErrorNotReported ==
    [][\A r \in Reqs :
        /\ (AccountStep(r) /\ err[r] # "nil") =>
            /\ pc'[r] = "done"
            /\ httpStatus'[r] = 200
            /\ warnLog'[r]
            /\ failedSamples'[inst[r]] = failedSamples[inst[r]] + Len(samples[r])
            /\ writeInvoked'[r] = 1
            /\ UNCHANGED <<sentSamples, sentBatchDuration, receivedSamples,
                           storeVars, poolVars>>
        /\ DoneIsFinal(r)
        /\ pc[r] = "done" => httpStatus'[r] = httpStatus[r]]_vars

\* A request whose Write failed in the values transaction was answered 200,
\* with a warning logged and its batch in the failed counter.
C17_Witness ==
    \E r \in Reqs :
        /\ pc[r] = "done" /\ ret[r] = "Values"
        /\ httpStatus[r] = 200 /\ warnLog[r]
        /\ writeInvoked[r] = 1
        /\ failedSamples["a"] = Len(samples[r])
        /\ sentSamples["a"] = 0

\* The samples of the requests in R that have been decoded.
RECURSIVE Decoded(_)
Decoded(R) ==
    IF R = {} THEN 0
    ELSE LET r == CHOOSE x \in R : TRUE
         IN (IF pc[r] # "idle" THEN Len(samples[r]) ELSE 0) + Decoded(R \ {r})

\* The step on which the handler has decoded request r.
ArrivalStep(r) == pc[r] = "idle" /\ pc'[r] # "idle"

\* C18: the received-samples counter grows by the batch size for every
\* decoded request, before the leadership gate and whatever the outcome: the
\* counters always add up to the samples of the requests decoded so far, and
\* they change on no other step.  A batch dropped by a non-leader leaves the store, the
\* sent and the failed counter alone, its samples having been counted as
\* received already.
C18_ReceivedCountsEveryRequest ==
    /\ [](receivedSamples["a"] + receivedSamples["b"] = Decoded(Reqs))
    /\ [][\A r \in Reqs :
            /\ ArrivalStep(r) =>
                /\ pc'[r] = "send"
                /\ receivedSamples'[inst'[r]]
                     = receivedSamples[inst'[r]] + Len(samples'[r])
                /\ NothingMetered
            /\ (GateStep(r) /\ elector[inst[r]] # "nil"
                    /\ IsLeader(inst[r]) = <<FALSE, "nil">>)
                => /\ receivedSamples[inst[r]] >= Len(samples[r])
                   /\ UNCHANGED receivedSamples
                   /\ NothingMetered]_vars
    /\ [][(\A r \in Reqs : ~ArrivalStep(r)) => UNCHANGED receivedSamples]_vars

\* A replica that is not the leader has answered every request by dropping
\* the batch: all their samples are counted as received, none as sent or
\* failed, and the store holds no row.
C18_Witness ==
    /\ \A r \in Reqs : pc[r] = "done" /\ writeInvoked[r] = 0 /\ ret[r] = "nil"
    /\ receivedSamples["b"] = Decoded(Reqs)
    /\ receivedSamples["b"] >= MaxReqs
    /\ sentSamples["b"] = 0 /\ failedSamples["b"] = 0
    /\ valuesTable = EmptyBag /\ labelsTable = {}

\* No two Writes in progress hold the same session.
OwnSession ==
    \A r1, r2 \in Reqs :
        (r1 # r2 /\ HoldsConn(r1) /\ HoldsConn(r2)) => conn[r1] # conn[r2]

\* The staging table of a Write that has created it holds the rows of its own
\* batch and no other: none before the copy, all of them after.
OwnStagingTable ==
    \A r \in Reqs :
        /\ pc[r] = "copy" => tmpTable[conn[r]] = [exists |-> TRUE, rows |-> <<>>]
        /\ pc[r] \in {"labels", "values"} =>
            tmpTable[conn[r]] = [exists |-> TRUE, rows |-> InputRows(samples[r])]

\* C19: under any interleaving of concurrent Writes each Write has a session
\* and a staging table of its own, no step of one Write changes the staging
\* table of another, and the values rows a successful Write inserts are those
\* computed from the rows of its own batch, one for each of its samples.
C19_ConcurrentWritesIsolated ==
    /\ [](OwnSession /\ OwnStagingTable)
    /\ [][\A r \in Reqs :
            /\ (InWrite(r) /\ pc'[r] # pc[r]) =>
                \A q \in Reqs \ {r} :
                    HoldsConn(q) => tmpTable'[conn[q]] = tmpTable[conn[q]]
            /\ ValuesCommit(r) =>
                LET added == sqlInsertValues(InputRows(samples[r]), labelsTable)
                IN /\ valuesTable' = valuesTable (+) added
                   /\ BagCardinality(added) = Len(samples[r])]_vars

\* Two Writes of different batches overlap, each on a session of its own: one
\* has committed its values rows, one per sample, while the other still has
\* its own rows staged.
C19_Witness ==
    \E r1, r2 \in Reqs :
        /\ pc[r1] = "cleanup" /\ err[r1] = "nil" /\ samples[r1] = BatchMixed
        /\ pc[r2] = "values" /\ samples[r2] = BatchSame
        /\ conn[r1] # conn[r2]
        /\ tmpTable[conn[r1]].rows = InputRows(BatchMixed)
        /\ tmpTable[conn[r2]].rows = InputRows(BatchSame)
        /\ BagCardinality(valuesTable) = Len(BatchMixed)

\* C20: a connectivity error at startup is retried pg-db-connect-retries
\* times: the process that ends on such an error has made the first attempt
\* and dbConnectRetries further ones.
C20_ConnectRetriedBeforeFatal ==
    (startPc = "exit" /\ connectAttempts > 0)
        => connectAttempts = dbConnectRetries + 1

\* Request r leaves the handler.
ReplyStep(r) == pc[r] # "done" /\ pc'[r] = "done"

\* C21: the ticking task of the throughput calculator never blocks and never
\* queues: a tick is possible in every state, a value enters the slot only
\* as the delta of the counter since the previous tick, a tick that finds the
\* slot taken drops its value, and the slot never holds more than one value.
\* The write handler polls the slot once when it returns, takes at most one
\* value, and returns also when the slot is empty.
C21_ThroughputNeverBlocks ==
    /\ [](\A i \in Instances : Len(Values[i]) <= 1)
    /\ [](\A i \in serving : ENABLED ThroughputTick(i))
    /\ [](\A r \in Reqs : pc[r] = "account" => ENABLED sendSamplesAccount(r))
    /\ [][\A i \in Instances :
            /\ Len(Values'[i]) > Len(Values[i]) =>
                /\ Values'[i] = <<throughputCurrent[i] - throughputPrevious[i]>>
                /\ throughputPrevious'[i] = throughputCurrent[i]
                /\ UNCHANGED <<pc, throughputLog, throughputCurrent>>
            /\ (Values[i] # <<>> /\ throughputPrevious'[i] # throughputPrevious[i])
                => Values'[i] = Values[i]
            /\ Len(Values'[i]) < Len(Values[i]) =>
                /\ Values'[i] = <<>>
                /\ \E r \in Reqs :
                    /\ ReplyStep(r) /\ inst[r] = i
                    /\ throughputLog'[r] = Head(Values[i])]_vars
    /\ [][\A r \in Reqs :
            /\ ReplyStep(r) =>
                /\ Values[inst[r]] = <<>> =>
                    (throughputLog'[r] = NoValue /\ UNCHANGED Values)
                /\ \A q \in Reqs \ {r} : throughputLog'[q] = throughputLog[q]
            /\ ~ReplyStep(r) => throughputLog'[r] = throughputLog[r]
            /\ DoneIsFinal(r)]_vars

\* A request returned while the slot was empty and logged no throughput; the
\* next one took the delta of the first batch from the slot; a later tick
\* has published the delta of the second.
C21_Witness ==
    \E r1, r2 \in Reqs :
        /\ pc[r1] = "done" /\ throughputLog[r1] = NoValue /\ httpStatus[r1] = 200
        /\ pc[r2] = "done" /\ throughputLog[r2] = Len(samples[r1])
        /\ ret[r1] = "nil" /\ ret[r2] = "nil" /\ writeInvoked[r1] = 1
        /\ Values["a"] = <<Len(samples[r2])>>
        /\ throughputPrevious["a"] = sentSamples["a"]

\* The non-name labels of mapping m.
NonName(m) == [k \in DOMAIN m \ {MetricNameLabel} |-> m[k]]

\* Every byte of s is printable ASCII, so s is valid UTF-8.
RECURSIVE ValidUTF8(_)
ValidUTF8(s) == s = <<>> \/ (Head(s) < 128 /\ ValidUTF8(Tail(s)))

\* The names and values of mapping m are valid UTF-8.
ValidMetric(m) == \A k \in DOMAIN m : ValidUTF8(k) /\ ValidUTF8(m[k])

\* C22 as stated: two mappings with the same key/value pairs get the same
\* metric name and the same labels text whatever the order of iteration, and
\* two mappings that differ in a non-name key or value get different labels
\* texts.
C22_CanonicalAndDistinct ==
    metas # <<>> =>
        /\ metrics[1] = metrics[2] => metas[1] = metas[2]
        /\ NonName(metrics[1]) # NonName(metrics[2]) => metas[1][2] # metas[2][2]

\* C22: two mappings with the same key/value pairs get the same metric name
\* and the same labels text whatever the order of iteration; two mappings of
\* valid UTF-8 names and values that differ in a non-name key or value get
\* different labels texts.
C22_CanonicalAndDistinctOnValidUTF8 ==
    metas # <<>> =>
        /\ metrics[1] = metrics[2] => metas[1] = metas[2]
        /\ (/\ NonName(metrics[1]) # NonName(metrics[2])
            /\ ValidMetric(metrics[1]) /\ ValidMetric(metrics[2]))
            => metas[1][2] # metas[2][2]

\* One mapping of a name and two labels was visited in two different orders
\* and gave the same name and the same text.
C22_Witness ==
    /\ metas # <<>>
    /\ metrics[1] = metrics[2]
    /\ Cardinality(DOMAIN metrics[1]) = 3
    /\ ValidMetric(metrics[1])
    /\ ranges[1] # ranges[2]
    /\ metas[1] = metas[2]
    /\ Len(metas[1][2]) > 2

\* The entry of label k of mapping m in the labels text: "k": "v".
Entry(m, k) == JsonMarshal(k) \o <<58, 32>> \o JsonMarshal(m[k])

\* The labels text that lists the labels ks of m in this order.
Render(m, ks) ==
    <<123>> \o Join([n \in DOMAIN ks |-> Entry(m, ks[n])], <<44>>) \o <<125>>

\* The arrangements of the non-name labels of m, each label once.
Listings(m) == Orders(DOMAIN NonName(m))

\* The labels text is "{}" exactly when m has no non-name label.
EmptyIffNoLabels(m, text) == (text = <<123, 125>>) <=> (DOMAIN NonName(m) = {})

NextPhase(p) ==
    CASE p = "conn" -> "create"
      [] p = "create" -> "copy"
      [] p = "copy" -> "labels"
      [] p = "labels" -> "values"
      [] p = "values" -> "cleanup"
      [] p = "cleanup" -> "account"

\* The error Write returns when phase p fails.
ErrorOf(p) ==
    CASE p = "conn" -> "Conn"
      [] p = "create" -> "CreateTmp"
      [] p = "copy" -> "Copy"
      [] p = "labels" -> "Labels"
      [] p = "values" -> "Values"

\* C24: Write goes through acquire session, create staging table, bulk load,
\* labels transaction, values transaction, drop and release in this order,
\* each at most once.  A phase that succeeds is followed by the next one; the
\* first phase that fails writes nothing, is followed by the cleanup only (by
\* nothing when no session was acquired), and its error is what Write
\* returns.  The values transaction runs only with the labels of the batch
\* committed.
C24_PhaseOrder ==
    /\ [][\A r \in Reqs :
            (InWrite(r) /\ pc'[r] # pc[r]) =>
                \/ /\ err[r] = "nil" /\ err'[r] = "nil"
                   /\ pc'[r] = NextPhase(pc[r])
                \/ /\ pc[r] # "cleanup"
                   /\ err[r] = "nil" /\ err'[r] = ErrorOf(pc[r])
                   /\ pc'[r] = IF pc[r] = "conn" THEN "account" ELSE "cleanup"
                   /\ UNCHANGED <<storeVars, tmpTable>>
                \/ /\ pc[r] = "cleanup" /\ pc'[r] = "account"
                   /\ err'[r] = err[r]
                   /\ UNCHANGED storeVars]_vars
    /\ [][\A r \in Reqs :
            /\ AccountStep(r) => (ret'[r] = err[r] /\ pc'[r] = "done")
            /\ writeInvoked'[r] <= 1
            /\ labelsTable' # labelsTable =>
                    \E q \in Reqs : pc[q] = "labels" /\ pc'[q] = "values"
            /\ valuesTable' # valuesTable =>
                    \E q \in Reqs : pc[q] = "values" /\ pc'[q] = "cleanup"]_vars
    /\ [](\A r \in Reqs :
            pc[r] = "values" => MissingLabels(samples[r], labelsTable) = {})

\* A Write failed in its labels transaction: it returned that error, was
\* called once, and neither a labels nor a values row was written.
C24_Witness ==
    /\ \E r \in Reqs :
        /\ pc[r] = "done" /\ ret[r] = "Labels" /\ writeInvoked[r] = 1
        /\ failedSamples["a"] = Len(samples[r])
    /\ \A r \in Reqs : pc[r] \in {"idle", "done"}
    /\ labelsTable = {} /\ valuesTable = EmptyBag
    /\ connInUse = {}

\* Request r is about to create its staging table on a session that still
\* has the table of an earlier Write.
StaleStaging(r) == pc[r] = "create" /\ tmpTable[conn[r]].exists

\* A Write that meets a stale staging table fails at the create step: nothing
\* is loaded or inserted.  What a values transaction inserts is computed from
\* the rows of its own batch.
StaleRowsNeverInserted ==
    \A r \in Reqs :
        /\ (StaleStaging(r) /\ pc'[r] # pc[r]) =>
            /\ pc'[r] = "cleanup" /\ err'[r] = "CreateTmp"
            /\ UNCHANGED <<storeVars, tmpTable>>
        /\ (pc[r] = "values" /\ pc'[r] # pc[r]) =>
            tmpTable[conn[r]].rows = InputRows(samples[r])

\* The cleanup of a Write that failed at the create step runs on a session
\* with a table.
StaleCleanup(r) ==
    WriteReturns(r) /\ err[r] = "CreateTmp" /\ tmpTable[conn[r]].exists

DropFailed(r) == cleanupLog[r] = "Failed to clean up temp table"

\* C26: the cleanup never decides the result of Write.  When the cleanup
\* runs, with the drop working or failing, the error of the protocol steps is
\* kept as it is, no table of the store changes and the session is released;
\* a failed drop is logged.  What Write returns is that error: a Write whose
\* steps all succeeded returns nil and is counted as sent, one whose step
\* failed returns that step's error and is counted as failed.
C26_CleanupNeverDecidesResult ==
    [][\A r \in Reqs :
        /\ WriteReturns(r) =>
            /\ err'[r] = err[r]
            /\ err[r] \in {"nil", "CreateTmp", "Copy", "Labels", "Values"}
            /\ conn[r] \notin connInUse'
            /\ UNCHANGED storeVars
            /\ tmpTable'[conn[r]].exists => cleanupLog'[r] = "Failed to clean up temp table"
        /\ AccountStep(r) =>
            /\ ret'[r] = err[r]
            /\ IF err[r] = "nil"
               THEN /\ sentSamples'[inst[r]] = sentSamples[inst[r]] + Len(samples[r])
                    /\ failedSamples' = failedSamples
               ELSE /\ failedSamples'[inst[r]] = failedSamples[inst[r]] + Len(samples[r])
                    /\ sentSamples' = sentSamples]_vars

\* Two Writes whose drops failed: the one whose steps all succeeded returned
\* nil and was counted as sent, the other returned the error of its bulk
\* load; both sessions are back in the pool.
C26_Witness ==
    /\ \E r1, r2 \in Reqs :
        /\ pc[r1] = "done" /\ ret[r1] = "nil" /\ DropFailed(r1)
        /\ writeInvoked[r1] = 1
        /\ pc[r2] = "done" /\ ret[r2] = "Copy" /\ DropFailed(r2)
        /\ sentSamples["a"] = Len(samples[r1])
        /\ failedSamples["a"] = Len(samples[r2])
    /\ connInUse = {}
    /\ \A c \in Conns : c[1] = "a" => tmpTable[c].exists

\* The samples of the requests in R for which sendSamples has counted the
\* outcome of Write.
RECURSIVE Accounted(_)
Accounted(R) ==
    IF R = {} THEN 0
    ELSE LET r == CHOOSE x \in R : TRUE
         IN (IF pc[r] = "done" /\ writeInvoked[r] = 1 THEN Len(samples[r]) ELSE 0)
            + Accounted(R \ {r})

\* C27: under concurrent requests, in every reachable state the sent and the
\* failed samples of an instance together do not exceed its received
\* samples; over all instances they add up to the samples of the requests
\* whose Write has returned, each counted once; and a step that changes
\* either counter is the accounting of one request of n samples, which
\* raises exactly one of the two by n.
C27_CounterInvariant ==
    /\ [](\A i \in Instances :
            sentSamples[i] + failedSamples[i] <= receivedSamples[i])
    /\ [](sentSamples["a"] + sentSamples["b"]
            + failedSamples["a"] + failedSamples["b"] = Accounted(Reqs))
    /\ [][(sentSamples' # sentSamples \/ failedSamples' # failedSamples) =>
            \E r \in Reqs :
                LET i == inst[r]
                    n == Len(samples[r])
                IN /\ AccountStep(r)
                   /\ OthersUnmetered(i)
                   /\ \/ /\ sentSamples'[i] = sentSamples[i] + n
                         /\ failedSamples'[i] = failedSamples[i]
                      \/ /\ failedSamples'[i] = failedSamples[i] + n
                         /\ sentSamples'[i] = sentSamples[i]]_vars

\* Two requests overlapped on the leader: one was written and counted as
\* sent, the other got no connection and was counted as failed; together
\* they make up what the instance received.
C27_Witness ==
    \E i \in Instances :
        /\ sentSamples[i] > 0 /\ failedSamples[i] > 0
        /\ sentSamples[i] + failedSamples[i] = receivedSamples[i]
        /\ \A r \in Reqs : pc[r] = "done" /\ writeInvoked[r] = 1
        /\ BagCardinality(valuesTable) = sentSamples[i]

====
